---- MODULE Spec2Model ----
(***************************************************************************)
(* The recommendation engine of the cafe simulator                         *)
(* (RealTimeCafeSimulator over a CafeConfig): the mutable configuration,   *)
(* the change log applied_changes, and the operations apply_recommendation,*)
(* get_forecast, compare_scenarios, generate_roi_analysis and              *)
(* save_current_state.                                                     *)
(*                                                                         *)
(* Numbers.  Impacts (0.08, -0.1, ...) are kept in hundredths, as          *)
(* integers: 0.08 * change_pct is 8 * change_pct hundredths.  The cost and *)
(* the profit of a transaction are in hundredths too.  Demand              *)
(* elasticities are kept in tenths.  The percentages the operations are    *)
(* driven with are those whose factor 1 + change_pct/100 is a dyadic       *)
(* rational (-200, -50, 0, 25): for them the double-precision product      *)
(* old * (1 + change_pct/100) of the source is exact, so the integer       *)
(* arithmetic below computes what the source computes.                     *)
(***************************************************************************)
EXTENDS Integers, Sequences, FiniteSets, TLC

VARIABLES
    config,           \* self.config: PRICE_SETTINGS and the three chances
    applied_changes,  \* self.applied_changes: the change log
    result,           \* the last operation: its arguments and what it returned
    saved_history,    \* the change-log snapshot last written by DataSaver
    saved_config,     \* the configuration snapshot last written by DataSaver
    clock,            \* the wall clock read by datetime.now()
    stream,           \* the variates of the random generator seeded with 42
    rng,              \* the state of the random generator: its position on the cycle
    historical_data,  \* self.historical_data: the transactions it was built on
    forecast_model,   \* self.forecast_model: what _train_models() has learnt
    simulated_data,   \* the batch the last apply_recommendation regenerated
    class_attributes  \* the attributes of the class CafeConfig itself

vars == <<config, applied_changes, result, saved_history, saved_config, clock,
          stream, rng, historical_data, forecast_model, simulated_data,
          class_attributes>>

\* Longest change log explored under Spec.
MaxLog == 3

\* Longest change log explored under SpecChances.
MaxLogChances == 5

\* Longest change log explored under SpecForecast.
MaxLogForecast == 6

\* Longest change log explored under SpecData.
MaxLogData == 3

\* Longest change log explored under SpecRows.
MaxLogRows == 2

\* Longest change log explored under SpecPrices.
MaxLogPrices == 4

\* Longest change log explored under SpecInput.
MaxLogInput == 3

\* Longest change log explored under SpecSave.
MaxLogSave == 2

\* Longest change log explored under SpecOrder.
MaxLogOrder == 2

----------------------------------------------------------------------------
(* CafeConfig *)

Categories == {"coffee", "bakery", "dessert", "sandwich", "beverage", "tea", "snack"}

DefaultPriceSettings ==
    [c \in Categories |->
        CASE c = "coffee"   -> [min |-> 150, max |-> 300, cost_pct |-> 30, demand_elasticity |-> -12]
          [] c = "bakery"   -> [min |-> 80,  max |-> 180, cost_pct |-> 30, demand_elasticity |-> -10]
          [] c = "dessert"  -> [min |-> 200, max |-> 400, cost_pct |-> 35, demand_elasticity |-> -8]
          [] c = "sandwich" -> [min |-> 250, max |-> 450, cost_pct |-> 40, demand_elasticity |-> -15]
          [] c = "beverage" -> [min |-> 120, max |-> 220, cost_pct |-> 33, demand_elasticity |-> -13]
          [] c = "tea"      -> [min |-> 100, max |-> 200, cost_pct |-> 30, demand_elasticity |-> -11]
          [] OTHER          -> [min |-> 180, max |-> 350, cost_pct |-> 38, demand_elasticity |-> -14]]

PROMO_CHANCE == 30
KNOWN_CUSTOMER_CHANCE == 70
LOYALTY_CARD_CHANCE == 60

CafeConfig ==
    [PRICE_SETTINGS        |-> DefaultPriceSettings,
     PROMO_CHANCE          |-> PROMO_CHANCE,
     KNOWN_CUSTOMER_CHANCE |-> KNOWN_CUSTOMER_CHANCE,
     LOYALTY_CARD_CHANCE   |-> LOYALTY_CARD_CHANCE]

----------------------------------------------------------------------------
(* Python helpers *)

\* dict.get(key, default)
Get(d, key, default) == IF key \in DOMAIN d THEN d[key] ELSE default

Abs(x) == IF x < 0 THEN -x ELSE x

Min(a, b) == IF a < b THEN a ELSE b

\* int(a / b) for b > 0: Python's int() drops the fraction, towards zero.
TruncDiv(a, b) == IF a >= 0 THEN a \div b ELSE -((-a) \div b)

----------------------------------------------------------------------------
(* Exact fractions.  A float of the source is kept as the pair <<n, d>> of  *)
(* the fraction n/d in lowest terms, d > 0; money is in currency units.     *)

RECURSIVE GCD(_, _)
GCD(a, b) == IF b = 0 THEN a ELSE GCD(b, a % b)

\* n / d, for d # 0
Rat(n, d) ==
    LET g == GCD(Abs(n), Abs(d))
    IN  IF d < 0 THEN <<(-n) \div g, (-d) \div g>> ELSE <<n \div g, d \div g>>

\* x * y
RMul(x, y) ==
    LET g == GCD(Abs(x[1]), y[2])
        h == GCD(Abs(y[1]), x[2])
    IN  <<(x[1] \div g) * (y[1] \div h), (x[2] \div h) * (y[2] \div g)>>

\* x + y
RAdd(x, y) ==
    LET g == GCD(x[2], y[2])
    IN  Rat(x[1] * (y[2] \div g) + y[1] * (x[2] \div g), (x[2] \div g) * y[2])

\* x - y
RSub(x, y) == RAdd(x, <<-y[1], y[2]>>)

\* x / y, for y # 0
RDiv(x, y) == RMul(x, IF y[1] < 0 THEN <<-y[2], -y[1]>> ELSE <<y[2], y[1]>>)

\* x < y
RLess(x, y) == x[1] * y[2] < y[1] * x[2]

\* int(x)
RInt(x) == TruncDiv(x[1], x[2])

----------------------------------------------------------------------------
(* The random module.  The generator is a cycle of StreamPeriod variates    *)
(* of [0, 1): `stream` holds the variates random.seed(42) starts, and the   *)
(* state of the generator is the position on the cycle.  Every call of the  *)
(* module takes the next variate u and maps it as the library does: a       *)
(* choice among n items takes item floor(u * n).                            *)

\* The length of the cycle of the random generator.
StreamPeriod == 2

\* The variates a cycle is made of.
Variates == {<<0, 1>>, <<1, 2>>, <<5, 6>>, <<99, 100>>}

\* The variates under which the forecast is computed.
ForecastVariates == {<<0, 1>>, <<1, 2>>}

\* The variate at position pos of the cycle s.
Variate(s, pos) == s[(pos % Len(s)) + 1]

\* random.seed(42), leaving the generator where it is
SeedNothing(position) == position

\* random.seed(42)
Seed(position) == 0

\* floor(u * n)
RandomBelow(u, n) == (u[1] * n) \div u[2]

\* random.randint(a, b), for a <= b
RandInt(u, a, b) == a + RandomBelow(u, b - a + 1)

\* random.choice(seq), as an index from 1
ChoiceIndex(u, n) == 1 + RandomBelow(u, n)

\* random.random() < pct / 100
Chance(u, pct) == u[1] * 100 < pct * u[2]

RECURSIVE SumTo(_, _)
SumTo(weights, k) == IF k = 0 THEN 0 ELSE weights[k] + SumTo(weights, k - 1)

\* list(itertools.accumulate(weights))
Accumulate(weights) == [k \in 1..Len(weights) |-> SumTo(weights, k)]

\* random.choices(population, weights = ...)[0] on the cumulative weights:
\* the item after the cumulative weights that are <= u * total.
Choices(u, population, cum_weights) ==
    LET total == cum_weights[Len(cum_weights)]
        below == {k \in 1..Len(cum_weights) : cum_weights[k] * u[2] <= u[1] * total}
    IN  population[Min(Cardinality(below) + 1, Len(population))]

\* random.uniform(a, b), a and b in hundredths
Uniform(u, a, b) == RAdd(Rat(a, 100), RMul(Rat(b - a, 100), u))

----------------------------------------------------------------------------
(* The two generators of transactions *)

\* Transactions of the initial dataset (N_ROWS in the source is 500).
HistRows == 2

\* Transactions of a regenerated batch (days * 50 in the source is 1500).
SimRows == 2

\* list(PRICE_SETTINGS.keys())
CategoryList == <<"coffee", "bakery", "dessert", "sandwich", "beverage", "tea", "snack">>

\* list(PEAK_HOURS.keys()), and list(PEAK_HOURS.values()) accumulated
PeakHours == <<8, 9, 10, 11, 12, 13, 14, 15, 16, 17, 18, 19>>
PeakWeights == Accumulate(<<2, 5, 4, 6, 8, 7, 4, 3, 4, 5, 4, 2>>)

\* CafeConfig.QUANTITY_DISTRIBUTION: its keys, and its values accumulated
QuantityDistributionKeys == <<1, 2, 3, 4>>
QuantityDistributionWeights == Accumulate(<<80, 15, 4, 1>>)

\* The population and the weights both generators draw the quantity with.
QuantityPopulation == <<1, 2, 3>>
QuantityWeights == Accumulate(<<80, 15, 5>>)

\* list(AGE_GROUP_DISTRIBUTION.keys()), and the values accumulated
AgeGroups == <<"18-24", "25-34", "35-44", "45-54">>
AgeWeights == Accumulate(<<25, 40, 25, 10>>)

\* The ratings and their weights
Ratings == <<4, 5, 3>>
RatingWeights == Accumulate(<<50, 30, 20>>)

\* len(DISH_NAMES[category])
DishCount(category) ==
    CASE category \in {"coffee", "dessert"} -> 7
      [] category \in {"bakery", "beverage"} -> 5
      [] OTHER -> 4

\* prep_times[category]
PrepTimes(category) ==
    CASE category = "coffee" -> <<2, 5>>
      [] category = "bakery" -> <<1, 3>>
      [] category = "dessert" -> <<3, 6>>
      [] category = "sandwich" -> <<5, 10>>
      [] category = "beverage" -> <<2, 4>>
      [] category = "tea" -> <<1, 3>>
      [] OTHER -> <<4, 8>>

\* cost = price * cost_% / 100, in hundredths
CostOf(price, cost_pct) == price * cost_pct

\* profit = price * quantity, the cost forgotten, in hundredths
ProfitOfRevenue(price, cost, quantity) == 100 * price * quantity

\* profit = (price - cost) * quantity, in hundredths (cost in hundredths)
ProfitOf(price, cost, quantity) == (100 * price - cost) * quantity

\* (price - cost) / price if price > 0 else 0, in hundredths
MarginOf(price, cost_pct) == IF price > 0 THEN 100 - cost_pct ELSE 0

\* One pass of the loop of _generate_simulated_data, from transaction i on,
\* the generator at position pos.  random.randint raises on an empty range,
\* before it draws; the except branch then returns None.
RECURSIVE SimulatedRows(_, _, _, _, _, _)
SimulatedRows(cfg, s, now, i, pos, data) ==
    IF i = SimRows
    THEN [status |-> "ok", rows |-> data, position |-> pos]
    ELSE LET hour == Choices(Variate(s, pos), PeakHours, PeakWeights)
             minute == RandInt(Variate(s, pos + 1), 0, 59)
             category == CategoryList[ChoiceIndex(Variate(s, pos + 2), Len(CategoryList))]
             price_settings == cfg.PRICE_SETTINGS[category]
             price == RandInt(Variate(s, pos + 3), price_settings.min, price_settings.max)
             cost == CostOf(price, price_settings.cost_pct)
             quantity == Choices(Variate(s, pos + 4), QuantityPopulation, QuantityWeights)
             known == Chance(Variate(s, pos + 5), cfg.KNOWN_CUSTOMER_CHANCE)
             client_id == IF known THEN <<RandInt(Variate(s, pos + 6), 1000, 9999)>> ELSE <<>>
             p == IF known THEN pos + 7 ELSE pos + 6
             row == [timestamp |-> [start_date |-> now, days |-> i \div 50,
                                    hour |-> hour, minute |-> minute],
                     transaction_id |-> 10000 + i,
                     client_id |-> client_id,
                     dish_category |-> category,
                     dish_name |-> <<category, ChoiceIndex(Variate(s, p), DishCount(category))>>,
                     price |-> price,
                     cost |-> cost,
                     quantity |-> quantity,
                     profit |-> ProfitOf(price, cost, quantity),
                     promo_applied |-> IF Chance(Variate(s, p + 1), cfg.PROMO_CHANCE)
                                       THEN 1 ELSE 0,
                     predicted_profit_margin |-> MarginOf(price, price_settings.cost_pct)]
         IN  IF price_settings.min > price_settings.max
             THEN [status |-> "error", rows |-> <<>>, position |-> pos + 3]
             ELSE SimulatedRows(cfg, s, now, i + 1, p + 2, Append(data, row))

\* _generate_simulated_data(days = 30), the generator at `position` before
GenerateSimulatedData(cfg, s, now, position) ==
    SimulatedRows(cfg, s, now, 0, Seed(position), <<>>)

\* One pass of the loop of _generate_initial_data, from transaction i on,
\* the quantity drawn from `population` with the cumulative weights
\* cum_weights.  START_DATE, 2023-10-01, is a Sunday (weekday 6).
RECURSIVE InitialRows(_, _, _, _, _, _, _)
InitialRows(cfg, s, i, pos, data, population, cum_weights) ==
    IF i = HistRows
    THEN [status |-> "ok", rows |-> data, position |-> pos]
    ELSE LET day_offset == RandInt(Variate(s, pos), 0, 60)
             hour == Choices(Variate(s, pos + 1), PeakHours, PeakWeights)
             minute == RandInt(Variate(s, pos + 2), 0, 59)
             category == CategoryList[ChoiceIndex(Variate(s, pos + 3), Len(CategoryList))]
             dish_name == <<category, ChoiceIndex(Variate(s, pos + 4), DishCount(category))>>
             price_settings == cfg.PRICE_SETTINGS[category]
             price == RandInt(Variate(s, pos + 5), price_settings.min, price_settings.max)
             cost == CostOf(price, price_settings.cost_pct)
             quantity == Choices(Variate(s, pos + 6), population, cum_weights)
             promo_applied == IF Chance(Variate(s, pos + 7), cfg.PROMO_CHANCE) THEN 1 ELSE 0
             known == Chance(Variate(s, pos + 8), cfg.KNOWN_CUSTOMER_CHANCE)
             client_id == IF known THEN <<RandInt(Variate(s, pos + 9), 100, 999)>> ELSE <<>>
             age_group == IF known
                          THEN <<Choices(Variate(s, pos + 10), AgeGroups, AgeWeights)>>
                          ELSE <<>>
             is_loyalty == IF known /\ Chance(Variate(s, pos + 11), cfg.LOYALTY_CARD_CHANCE)
                           THEN 1 ELSE 0
             q == IF known THEN pos + 12 ELSE pos + 9
             rated == Chance(Variate(s, q), 70)
             rating == IF rated
                       THEN <<Choices(Variate(s, q + 1), Ratings, RatingWeights)>>
                       ELSE <<>>
             r == IF rated THEN q + 2 ELSE q + 1
             weekday == (6 + day_offset) % 7
             row == [transaction_id |-> 1000 + i,
                     timestamp |-> [start_date |-> "2023-10-01", days |-> day_offset,
                                    hour |-> hour, minute |-> minute],
                     client_id |-> client_id,
                     age_group |-> age_group,
                     is_loyalty |-> is_loyalty,
                     week_day |-> weekday,
                     hour |-> hour,
                     is_weekend |-> IF weekday >= 5 THEN 1 ELSE 0,
                     is_holiday |-> 0,
                     dish_id |-> RandInt(Variate(s, r + 2), 100, 500),
                     dish_name |-> dish_name,
                     dish_category |-> category,
                     price |-> price,
                     cost |-> cost,
                     quantity |-> quantity,
                     weather |-> ChoiceIndex(Variate(s, r + 3), 4),
                     temperature |-> RandInt(Variate(s, r + 4), 15, 25),
                     promo_applied |-> promo_applied,
                     waiter_id |-> RandInt(Variate(s, r), 1, 10),
                     preparation_time |-> RandInt(Variate(s, r + 1), PrepTimes(category)[1],
                                                  PrepTimes(category)[2]),
                     rating |-> rating,
                     predicted_profit_margin |-> MarginOf(price, price_settings.cost_pct),
                     profit |-> ProfitOf(price, cost, quantity)]
         IN  InitialRows(cfg, s, i + 1, r + 5, Append(data, row), population, cum_weights)

\* _generate_initial_data(): the quantity is drawn from [1, 2, 3] with the
\* weights [80, 15, 5]
GenerateInitialData(cfg, s) ==
    InitialRows(cfg, s, 0, Seed(0), <<>>, QuantityPopulation, QuantityWeights)

----------------------------------------------------------------------------
(* DemandForecastModel *)

\* datetime.now().date().weekday(): the instants of the clock fall on
\* consecutive days, the first one on a Monday.
Weekday(now) == now % 7

\* The sum of the profit column over the rows at positions I, in hundredths.
RECURSIVE SumProfit(_, _)
SumProfit(data, I) ==
    IF I = {}
    THEN 0
    ELSE LET i == CHOOSE j \in I : TRUE
         IN  data[i].profit + SumProfit(data, I \ {i})

\* historical_data['profit'].mean()
MeanProfit(data) == Rat(SumProfit(data, DOMAIN data), 100 * Len(data))

\* _train_models(): df['timestamp'].iloc[0] raises on an empty history;
\* category_means is the mean over the days of the daily profit of a
\* category, weekday_means the mean profit of the transactions of a weekday.
TrainModels(data) ==
    IF Len(data) = 0
    THEN [status |-> "error"]
    ELSE LET Of(c) == {i \in DOMAIN data : data[i].dish_category = c}
             On(w) == {i \in DOMAIN data : data[i].week_day = w}
             Dates(I) == {data[i].timestamp.days : i \in I}
         IN  [status |-> "trained",
              category_means |->
                  [c \in {data[i].dish_category : i \in DOMAIN data} |->
                      Rat(SumProfit(data, Of(c)), 100 * Cardinality(Dates(Of(c))))],
              weekday_means |->
                  [w \in {data[i].week_day : i \in DOMAIN data} |->
                      Rat(SumProfit(data, On(w)), 100 * Cardinality(On(w)))]]

\* 1 + profit_change of one price change, the damping factor 0.3 left out
PriceFactorUndamped(cfg, category, change_pct) ==
    LET elasticity == Rat(cfg.PRICE_SETTINGS[category].demand_elasticity, 10)
        quantity_change == RMul(elasticity, Rat(change_pct, 100))
    IN  RMul(RAdd(<<1, 1>>, Rat(change_pct, 100)), RAdd(<<1, 1>>, quantity_change))

\* 1 + profit_change * 0.3 of one price change (elasticity in tenths)
PriceFactor(cfg, category, change_pct) ==
    LET elasticity == Rat(cfg.PRICE_SETTINGS[category].demand_elasticity, 10)
        quantity_change == RMul(elasticity, Rat(change_pct, 100))
        profit_change == RSub(RMul(RAdd(<<1, 1>>, Rat(change_pct, 100)),
                                   RAdd(<<1, 1>>, quantity_change)), <<1, 1>>)
    IN  RAdd(<<1, 1>>, RMul(profit_change, <<3, 10>>))

\* The loop of forecast_demand with the test on the categories of the
\* configuration instead of those of category_means
RECURSIVE AdjustPricesConfigured(_, _, _, _, _)
AdjustPricesConfigured(cfg, model, price_changes, todo, adjusted_profit) ==
    IF todo = {}
    THEN adjusted_profit
    ELSE LET category == CHOOSE c \in todo : TRUE
         IN  AdjustPricesConfigured(cfg, model, price_changes, todo \ {category},
                 IF category \in DOMAIN cfg.PRICE_SETTINGS
                 THEN RMul(adjusted_profit,
                           PriceFactor(cfg, category, price_changes[category]))
                 ELSE adjusted_profit)

\* The loop of forecast_demand over changes['price_changes'].items()
RECURSIVE AdjustPrices(_, _, _, _, _)
AdjustPrices(cfg, model, price_changes, todo, adjusted_profit) ==
    IF todo = {}
    THEN adjusted_profit
    ELSE LET category == CHOOSE c \in todo : TRUE
         IN  AdjustPrices(cfg, model, price_changes, todo \ {category},
                 IF category \in DOMAIN model.category_means
                 THEN RMul(adjusted_profit,
                           PriceFactor(cfg, category, price_changes[category]))
                 ELSE adjusted_profit)

\* adjusted_profit of forecast_demand
AdjustedProfit(cfg, model, base_daily_profit, changes) ==
    LET priced == IF "price_changes" \in DOMAIN changes
                  THEN AdjustPrices(cfg, model, changes.price_changes,
                                    DOMAIN changes.price_changes, base_daily_profit)
                  ELSE base_daily_profit
        promo_effect == LET e == Rat(Get(changes, "promo_increase", 0) * 15, 100)
                        IN  IF RLess(e, <<1, 2>>) THEN e ELSE <<1, 2>>
        promoted == IF "promo_increase" \in DOMAIN changes
                    THEN RMul(priced, RAdd(<<1, 1>>, promo_effect))
                    ELSE priced
        customer_effect == Rat(Get(changes, "new_customers_pct", 0) * 8, 1000)
    IN  IF "new_customers_pct" \in DOMAIN changes
        THEN RMul(promoted, RAdd(<<1, 1>>, customer_effect))
        ELSE promoted

\* forecast_demand(days, changes) of a model trained on `data`, called on
\* weekday `today` with the generator at position pos: one row a day, in
\* the order of the loop.
ForecastDemand(cfg, model, data, s, pos, today, days, changes) ==
    LET base_daily_profit == IF Len(data) > 0 THEN RMul(MeanProfit(data), <<50, 1>>)
                             ELSE <<10000, 1>>
        adjusted_profit == AdjustedProfit(cfg, model, base_daily_profit, changes)
        per_customer == IF Len(data) > 0 THEN MeanProfit(data) ELSE <<200, 1>>
    IN  [k \in 1..days |->
            LET weekday == (today + k - 1) % 7
                weekday_factor ==
                    IF /\ weekday \in DOMAIN model.weekday_means
                       /\ model.weekday_means[weekday][1] # 0
                       /\ base_daily_profit[1] > 0
                    THEN RDiv(model.weekday_means[weekday], base_daily_profit)
                    ELSE <<1, 1>>
                random_factor == RAdd(<<1, 1>>, Uniform(Variate(s, pos + k - 1), -15, 15))
                daily_profit == RMul(RMul(adjusted_profit, weekday_factor), random_factor)
            IN  [date |-> k - 1,
                 day |-> k,
                 weekday |-> weekday,
                 predicted_profit |-> daily_profit,
                 predicted_customers |-> RInt(RDiv(daily_profit, per_customer)),
                 predicted_revenue |-> RDiv(daily_profit, <<3, 10>>)]]

\* The sum of predicted_profit over the rows lo..hi, by halves
RECURSIVE SumRows(_, _, _)
SumRows(forecast, lo, hi) ==
    IF lo = hi
    THEN forecast[lo].predicted_profit
    ELSE LET mid == (lo + hi) \div 2
         IN  RAdd(SumRows(forecast, lo, mid), SumRows(forecast, mid + 1, hi))

\* predicted_profit.cumsum() at row k
CumSum(forecast, k) == SumRows(forecast, 1, k)

\* forecast['cumulative_profit'] = forecast['predicted_profit'], not summed
WithCumulativeUnsummed(forecast) ==
    [k \in DOMAIN forecast |->
        [f \in DOMAIN forecast[k] \cup {"cumulative_profit"} |->
            IF f = "cumulative_profit" THEN forecast[k].predicted_profit
            ELSE forecast[k][f]]]

\* if len(forecast) > 0: forecast['cumulative_profit'] = ....cumsum()
WithCumulative(forecast) ==
    [k \in DOMAIN forecast |->
        [f \in DOMAIN forecast[k] \cup {"cumulative_profit"} |->
            IF f = "cumulative_profit" THEN CumSum(forecast, k) ELSE forecast[k][f]]]

\* forecast['predicted_profit'].sum()
TotalProfit(forecast) ==
    IF DOMAIN forecast = {} THEN <<0, 1>>
    ELSE SumRows(forecast, 1, Cardinality(DOMAIN forecast))

\* float('inf')
Infinity == <<1, 0>>

\* effect_multiplier, in hundredths, and duration_months of a change_type
EffectMultiplier(change_type) ==
    CASE change_type = "marketing" -> 150
      [] change_type = "equipment" -> 120
      [] change_type = "training" -> 115
      [] OTHER -> 110

\* duration_months, the equipment branch left out
DurationMonthsHalfYear(change_type) ==
    CASE change_type = "marketing" -> 3
      [] OTHER -> 6

DurationMonths(change_type) ==
    CASE change_type = "marketing" -> 3
      [] change_type = "equipment" -> 12
      [] change_type = "training" -> 6
      [] OTHER -> 6

\* The recommendation of generate_roi_analysis: 'recommend' if roi > 30,
\* else 'do not recommend' if roi < 0, else 'consider'
Recommendation(roi) ==
    IF RLess(<<30, 1>>, roi) THEN "RECOMMEND"
    ELSE IF RLess(roi, <<0, 1>>) THEN "DO NOT RECOMMEND" ELSE "CONSIDER"

\* What generate_roi_analysis returns on the forecast of its 90 days.
RoiAnalysis(forecast, investment, change_type) ==
    IF DOMAIN forecast = {}
    THEN [investment |-> investment,
          additional_profit_expected |-> <<0, 1>>,
          roi_percent |-> <<-100, 1>>,
          payback_months |-> Infinity,
          recommendation |-> "INSUFFICIENT DATA"]
    ELSE LET monthly_profit == RDiv(TotalProfit(forecast), <<3, 1>>)
             improved_monthly == RMul(monthly_profit, Rat(EffectMultiplier(change_type), 100))
             gain == RSub(improved_monthly, monthly_profit)
             additional_profit == RMul(gain, <<DurationMonths(change_type), 1>>)
             roi == IF investment > 0
                    THEN RMul(RDiv(RSub(additional_profit, <<investment, 1>>),
                                   <<investment, 1>>), <<100, 1>>)
                    ELSE <<0, 1>>
         IN  [investment |-> investment,
              additional_profit_expected |-> additional_profit,
              roi_percent |-> roi,
              payback_months |-> IF RLess(monthly_profit, improved_monthly)
                                 THEN RDiv(<<investment, 1>>, gain) ELSE Infinity,
              recommendation |-> Recommendation(roi)]

----------------------------------------------------------------------------
(* apply_recommendation *)

\* round(old * (1 + change_pct/100)): to the nearest integer, halves away from zero.
ScalePriceRounded(old, change_pct) ==
    LET x == old * (100 + change_pct)
    IN  IF x >= 0 THEN (x + 50) \div 100 ELSE -((50 - x) \div 100)

\* int(old * (1 + change_pct/100))
ScalePrice(old, change_pct) == TruncDiv(old * (100 + change_pct), 100)

\* chance + step, with no upper limit
RaiseChanceUnclamped(chance, step) == chance + step

\* max(100, chance + step)
RaiseChanceMax(chance, step) == IF chance + step > 100 THEN chance + step ELSE 100

\* min(100, chance + step)
RaiseChance(chance, step) == Min(100, chance + step)

\* The writes of a price change that falls back to 'coffee' for a category
\* that is no key of PRICE_SETTINGS.
PriceChangeDefaulting(ps, category, change_pct) ==
    LET c == IF category \in DOMAIN ps THEN category ELSE "coffee"
    IN  [ps EXCEPT ![c].min = ScalePrice(ps[c].min, change_pct),
                   ![c].max = ScalePrice(ps[c].max, change_pct)]

\* The writes of a price change that scales the max and leaves the min.
PriceChangeMaxOnly(ps, category, change_pct) ==
    IF category \in DOMAIN ps
    THEN [ps EXCEPT ![category].max = ScalePrice(ps[category].max, change_pct)]
    ELSE ps

\* The price_change branch's writes to PRICE_SETTINGS.
PriceChange(ps, category, change_pct) ==
    IF category \in DOMAIN ps
    THEN [ps EXCEPT ![category].min = ScalePrice(ps[category].min, change_pct),
                    ![category].max = ScalePrice(ps[category].max, change_pct)]
    ELSE ps

\* A configuration update in which happy_hours raises PROMO_CHANCE as
\* promo_campaign does.
ConfigAfterHappyPromo(cfg, rec_type, params) ==
    CASE rec_type = "price_change" ->
            [cfg EXCEPT !.PRICE_SETTINGS =
                PriceChange(cfg.PRICE_SETTINGS,
                            Get(params, "category", "coffee"),
                            Get(params, "change_pct", 0))]
      [] rec_type \in {"promo_campaign", "happy_hours"} ->
            [cfg EXCEPT !.PROMO_CHANCE = RaiseChance(cfg.PROMO_CHANCE, 30)]
      [] rec_type = "loyalty_program" ->
            [cfg EXCEPT !.LOYALTY_CARD_CHANCE = RaiseChance(cfg.LOYALTY_CARD_CHANCE, 20)]
      [] OTHER -> cfg

\* A configuration update that runs the promo_campaign branch for a kind it
\* does not know.
ConfigAfterDefaultPromo(cfg, rec_type, params) ==
    CASE rec_type = "price_change" ->
            [cfg EXCEPT !.PRICE_SETTINGS =
                PriceChange(cfg.PRICE_SETTINGS,
                            Get(params, "category", "coffee"),
                            Get(params, "change_pct", 0))]
      [] rec_type = "loyalty_program" ->
            [cfg EXCEPT !.LOYALTY_CARD_CHANCE = RaiseChance(cfg.LOYALTY_CARD_CHANCE, 20)]
      [] rec_type \in {"happy_hours", "menu_change"} -> cfg
      [] OTHER -> [cfg EXCEPT !.PROMO_CHANCE = RaiseChance(cfg.PROMO_CHANCE, 30)]

\* The configuration after the branch of rec_type has run.
ConfigAfter(cfg, rec_type, params) ==
    CASE rec_type = "price_change" ->
            [cfg EXCEPT !.PRICE_SETTINGS =
                PriceChange(cfg.PRICE_SETTINGS,
                            Get(params, "category", "coffee"),
                            Get(params, "change_pct", 0))]
      [] rec_type = "promo_campaign" ->
            [cfg EXCEPT !.PROMO_CHANCE = RaiseChance(cfg.PROMO_CHANCE, 30)]
      [] rec_type = "loyalty_program" ->
            [cfg EXCEPT !.LOYALTY_CARD_CHANCE = RaiseChance(cfg.LOYALTY_CARD_CHANCE, 20)]
      [] OTHER -> cfg

\* The initial effects dictionary.
NoEffects == [profit_impact |-> 0, customer_impact |-> 0, description |-> [text |-> ""]]

\* Price-change effects with the two coefficients of the discount branch swapped.
PriceChangeEffectsSwapped(category, change_pct) ==
    IF change_pct > 0
    THEN [profit_impact   |-> 8 * change_pct,
          customer_impact |-> (-5) * Abs(change_pct),
          description     |-> [text |-> "prices changed", category |-> category,
                               change_pct |-> change_pct]]
    ELSE [profit_impact   |-> (-8) * Abs(change_pct),
          customer_impact |-> 3 * Abs(change_pct),
          description     |-> [text |-> "discount", category |-> category,
                               change_pct |-> Abs(change_pct)]]

\* The effects of a price change on a category of PRICE_SETTINGS.
PriceChangeEffects(category, change_pct) ==
    IF change_pct > 0
    THEN [profit_impact   |-> 8 * change_pct,
          customer_impact |-> (-5) * Abs(change_pct),
          description     |-> [text |-> "prices changed", category |-> category,
                               change_pct |-> change_pct]]
    ELSE [profit_impact   |-> (-3) * Abs(change_pct),
          customer_impact |-> 8 * Abs(change_pct),
          description     |-> [text |-> "discount", category |-> category,
                               change_pct |-> Abs(change_pct)]]

\* The effects dictionary after the branch of rec_type has run.
Effects(cfg, rec_type, params) ==
    CASE rec_type = "price_change" ->
            LET category == Get(params, "category", "coffee")
                change_pct == Get(params, "change_pct", 0)
            IN  IF category \in DOMAIN cfg.PRICE_SETTINGS
                THEN PriceChangeEffects(category, change_pct)
                ELSE [NoEffects EXCEPT !.description =
                        [text |-> "category not found", category |-> category]]
      [] rec_type = "promo_campaign" ->
            [profit_impact |-> -10, customer_impact |-> 25,
             description |-> [text |-> "promo", discount |-> Get(params, "discount", 15),
                              duration |-> Get(params, "duration", 7)]]
      [] rec_type = "happy_hours" ->
            [profit_impact |-> 15, customer_impact |-> 20,
             description |-> [text |-> "happy hours", hours |-> Get(params, "hours", "15-17"),
                              discount |-> Get(params, "discount", 20)]]
      [] rec_type = "menu_change" ->
            LET action == Get(params, "action", "add")
                dish == Get(params, "dish", "")
            IN  CASE action = "add" ->
                        [profit_impact |-> 5, customer_impact |-> 3,
                         description |-> [text |-> "dish added", dish |-> dish]]
                  [] action = "remove" ->
                        [profit_impact |-> 2, customer_impact |-> -1,
                         description |-> [text |-> "dish removed", dish |-> dish]]
                  [] OTHER -> NoEffects
      [] rec_type = "loyalty_program" ->
            [profit_impact |-> 12, customer_impact |-> 15,
             description |-> [text |-> "loyalty improved",
                              improvement |-> Get(params, "improvement", "")]]
      [] OTHER -> NoEffects

\* A change record that stores the effects as they were before the branch ran.
ChangeRecordBlankEffects(now, rec_type, params, effects) ==
    [timestamp |-> <<"datetime", now>>, type |-> rec_type, params |-> params,
     effects |-> NoEffects]

\* change_record
ChangeRecord(now, rec_type, params, effects) ==
    [timestamp |-> <<"datetime", now>>, type |-> rec_type, params |-> params,
     effects |-> effects]

\* self.applied_changes.insert(0, change_record)
AppendChangeNewestFirst(log, change_record) == <<change_record>> \o log

\* self.applied_changes.append(change_record)
AppendChange(log, change_record) == Append(log, change_record)

\* DataSaver.save_changes_history: what is written to the history file.
SerializeChanges(changes) ==
    [i \in 1..Len(changes) |->
        IF "timestamp" \in DOMAIN changes[i]
        THEN [changes[i] EXCEPT !.timestamp = <<"isoformat", changes[i].timestamp[2]>>]
        ELSE changes[i]]

\* DataSaver.save_config: the fields of the configuration written to the file.
SerializeConfig(cfg) ==
    [PRICE_SETTINGS        |-> cfg.PRICE_SETTINGS,
     PROMO_CHANCE          |-> cfg.PROMO_CHANCE,
     KNOWN_CUSTOMER_CHANCE |-> cfg.KNOWN_CUSTOMER_CHANCE,
     LOYALTY_CARD_CHANCE   |-> cfg.LOYALTY_CARD_CHANCE]

\* The values of a parameter that are no numbers.
NonNumeric == {"abc"}

\* isinstance(value, (int, float)): values of different kinds are told apart
\* by their printed form.
IsNumber(value) == ToString(value) \notin {ToString(text) : text \in NonNumeric}

\* change_pct/100 raises TypeError on a change_pct that is no number; it is
\* evaluated, before anything is written, when the category is a key of
\* PRICE_SETTINGS.
Raises(cfg, rec_type, params) ==
    /\ rec_type = "price_change"
    /\ Get(params, "category", "coffee") \in DOMAIN cfg.PRICE_SETTINGS
    /\ ~IsNumber(Get(params, "change_pct", 0))

\* The attributes of the class after the branch has run on an instance that
\* reads `after`: the instance has no PRICE_SETTINGS of its own, so
\* self.config.PRICE_SETTINGS is the dictionary of the class, written in
\* place; self.config.PROMO_CHANCE = ... and self.config.LOYALTY_CARD_CHANCE
\* = ... create attributes of the instance.
ClassAfter(attributes, after) ==
    [attributes EXCEPT !.PRICE_SETTINGS = after.PRICE_SETTINGS]

\* The three writes of _auto_save_after_change.
Saves == {"history", "config", "dataset"}

\* The failed saves whose exception leaves the DataSaver, were it not to
\* catch any.
PropagatedUncaught(failing) == failing

\* The failed saves whose exception leaves the DataSaver: every method
\* catches Exception, prints it and returns None.
Propagated(failing) == {}

\* What a save leaves in the file: `written`, or `old` when it fails.
Saved(failing, save, old, written) == IF save \in failing THEN old ELSE written

\* The configuration _generate_simulated_data would read were the batch
\* regenerated before the branch ran.
GenerationConfigBefore(before, after) == before

\* The configuration _generate_simulated_data reads: self.config, after the
\* branch of apply_recommendation has run.
GenerationConfig(before, after) == after

\* apply_recommendation(rec_type, params), the saves in `failing` failing.
ApplyRecommendationSaving(rec_type, params, failing) ==
    IF Raises(config, rec_type, params)
    THEN /\ result' = [op |-> "apply_recommendation", rec_type |-> rec_type,
                       raised |-> "TypeError"]
         /\ UNCHANGED <<config, applied_changes, saved_history, saved_config, clock,
                        stream, rng, historical_data, forecast_model, simulated_data,
                        class_attributes>>
    ELSE LET effects == Effects(config, rec_type, params)
             change_record == ChangeRecord(clock, rec_type, params, effects)
         IN  /\ config' = ConfigAfter(config, rec_type, params)
             /\ class_attributes' = ClassAfter(class_attributes, config')
             /\ applied_changes' = AppendChange(applied_changes, change_record)
             /\ saved_history' = Saved(failing, "history", saved_history,
                                       SerializeChanges(applied_changes'))
             /\ saved_config' = Saved(failing, "config", saved_config,
                                      SerializeConfig(config'))
             /\ result' = IF Propagated(failing) = {}
                          THEN [op |-> "apply_recommendation", rec_type |-> rec_type,
                                params |-> params, value |-> effects]
                          ELSE [op |-> "apply_recommendation", rec_type |-> rec_type,
                                raised |-> "OSError"]
             /\ LET new_data == GenerateSimulatedData(GenerationConfig(config, config'),
                                                      stream, clock, rng)
                IN  /\ simulated_data' =
                        [status |-> new_data.status, rows |-> new_data.rows,
                         saved_file |-> /\ new_data.status = "ok"
                                        /\ Len(new_data.rows) > 0
                                        /\ "dataset" \notin failing]
                    /\ rng' = new_data.position % StreamPeriod
             /\ clock' = clock + 1
             /\ UNCHANGED <<stream, historical_data, forecast_model>>

\* apply_recommendation(rec_type, params), every save succeeding.
ApplyRecommendation(rec_type, params) == ApplyRecommendationSaving(rec_type, params, {})

----------------------------------------------------------------------------
(* get_forecast, compare_scenarios, generate_roi_analysis, save_current_state *)

\* d[key] = value on a dictionary
DictSet(d, key, value) ==
    [k \in DOMAIN d \cup {key} |-> IF k = key THEN value ELSE d[k]]

\* {}
EmptyDict == [k \in {} |-> 0]

\* self.applied_changes, unsliced
RecentChangesAll(log) == log

\* self.applied_changes[-6:]
RecentChangesSix(log) ==
    SubSeq(log, IF Len(log) > 6 THEN Len(log) - 5 ELSE 1, Len(log))

\* self.applied_changes[-5:]
RecentChanges(log) ==
    SubSeq(log, IF Len(log) > 5 THEN Len(log) - 4 ELSE 1, Len(log))

\* One pass of the loop of get_forecast over `changes`, from index i on.
RECURSIVE FoldChanges(_, _, _)
FoldChanges(changes, i, changes_summary) ==
    IF i > Len(changes)
    THEN changes_summary
    ELSE LET change == changes[i]
             price_changes == Get(changes_summary, "price_changes", EmptyDict)
             cat == Get(change.params, "category", "coffee")
             pct == Get(change.params, "change_pct", 0)
         IN  IF change.type = "price_change"
             THEN FoldChanges(changes, i + 1,
                     DictSet(changes_summary, "price_changes",
                             DictSet(price_changes, cat, Get(price_changes, cat, 0) + pct)))
             ELSE FoldChanges(changes, i + 1, changes_summary)

\* The scenario branch of get_forecast with the two pessimistic values swapped.
ScenarioOverlaySwapped(changes_summary, scenario) ==
    CASE scenario = "optimistic" ->
            DictSet(DictSet(changes_summary, "new_customers_pct", 20), "promo_increase", 10)
      [] scenario = "pessimistic" ->
            DictSet(DictSet(changes_summary, "new_customers_pct", -5), "promo_increase", -10)
      [] OTHER -> changes_summary

\* The scenario branch of get_forecast.
ScenarioOverlay(changes_summary, scenario) ==
    CASE scenario = "optimistic" ->
            DictSet(DictSet(changes_summary, "new_customers_pct", 20), "promo_increase", 10)
      [] scenario = "pessimistic" ->
            DictSet(DictSet(changes_summary, "new_customers_pct", -10), "promo_increase", -5)
      [] OTHER -> changes_summary

\* The changes_summary get_forecast hands to forecast_demand.
ChangesSummary(log, scenario) ==
    ScenarioOverlay(FoldChanges(RecentChanges(log), 1, EmptyDict), scenario)

\* The four scenarios, the first one taken from the change log.
ScenariosFromLog ==
    << [name |-> "baseline",        changes |-> ChangesSummary(applied_changes, "none")],
       [name |-> "active promo",    changes |-> [promo_increase |-> 30, new_customers_pct |-> 15]],
       [name |-> "price increase",  changes |-> [price_changes |-> [coffee |-> 10, dessert |-> 10]]],
       [name |-> "menu optimising", changes |-> [new_customers_pct |-> 5]] >>

\* The four scenarios of compare_scenarios, in dictionary order.
Scenarios ==
    << [name |-> "baseline",        changes |-> EmptyDict],
       [name |-> "active promo",    changes |-> [promo_increase |-> 30, new_customers_pct |-> 15]],
       [name |-> "price increase",  changes |-> [price_changes |-> [coffee |-> 10, dessert |-> 10]]],
       [name |-> "menu optimising", changes |-> [new_customers_pct |-> 5]] >>

\* The operations that forecast draw one variate a day.  `result` keeps, of
\* such a call, where the generator stood (start) and the weekday of the
\* call (today): with the trained model they determine the rows returned.
Frame == <<config, applied_changes, clock, stream, historical_data, forecast_model,
           simulated_data, class_attributes>>

\* get_forecast that takes the records it has read off the log
GetForecastDraining(days, scenario) ==
    /\ result' = [op |-> "get_forecast", days |-> days, scenario |-> scenario,
                  changes |-> ChangesSummary(applied_changes, scenario),
                  start |-> rng, today |-> Weekday(clock)]
    /\ rng' = (rng + days) % StreamPeriod
    /\ applied_changes' = SubSeq(applied_changes, 1, Len(applied_changes) - 5)
    /\ UNCHANGED <<config, clock, stream, historical_data, forecast_model,
                   simulated_data, class_attributes, saved_history, saved_config>>

\* get_forecast that reseeds the generator before it forecasts
GetForecastReseeding(days, scenario) ==
    /\ result' = [op |-> "get_forecast", days |-> days, scenario |-> scenario,
                  changes |-> ChangesSummary(applied_changes, scenario),
                  start |-> Seed(rng), today |-> Weekday(clock)]
    /\ rng' = (Seed(rng) + days) % StreamPeriod
    /\ UNCHANGED <<Frame, saved_history, saved_config>>

GetForecast(days, scenario) ==
    /\ result' = [op |-> "get_forecast", days |-> days, scenario |-> scenario,
                  changes |-> ChangesSummary(applied_changes, scenario),
                  start |-> rng, today |-> Weekday(clock)]
    /\ rng' = (rng + days) % StreamPeriod
    /\ UNCHANGED <<Frame, saved_history, saved_config>>

\* The forecast the get_forecast call recorded in r has returned.
ForecastOf(r) ==
    WithCumulative(ForecastDemand(class_attributes, forecast_model, historical_data, stream,
                                  r.start, r.today, r.days, r.changes))

\* The dictionary the generate_roi_analysis call recorded in r has returned.
RoiOf(r) == RoiAnalysis(ForecastOf(r), r.investment, r.change_type)

CompareScenarios ==
    /\ result' = [op |-> "compare_scenarios",
                  forecasts |-> [i \in 1..Len(Scenarios) |->
                                    [name |-> Scenarios[i].name, days |-> 30,
                                     changes |-> Scenarios[i].changes]],
                  start |-> rng, today |-> Weekday(clock)]
    /\ rng' = (rng + 30 * Len(Scenarios)) % StreamPeriod
    /\ UNCHANGED <<Frame, saved_history, saved_config>>

GenerateRoiAnalysis(investment, change_type) ==
    /\ result' = [op |-> "generate_roi_analysis", days |-> 90,
                  changes |-> ChangesSummary(applied_changes, "none"),
                  investment |-> investment, change_type |-> change_type,
                  start |-> rng, today |-> Weekday(clock)]
    /\ rng' = (rng + 90) % StreamPeriod
    /\ UNCHANGED <<Frame, saved_history, saved_config>>

SaveCurrentState ==
    /\ saved_history' = SerializeChanges(applied_changes)
    /\ saved_config' = SerializeConfig(config)
    /\ result' = [op |-> "save_current_state", days |-> 30,
                  changes |-> ChangesSummary(applied_changes, "none"),
                  start |-> rng, today |-> Weekday(clock)]
    /\ rng' = (rng + 30) % StreamPeriod
    /\ UNCHANGED Frame

----------------------------------------------------------------------------
(* The session *)

\* The recommendations the session is driven with.
Calls ==
    {[rec_type |-> "price_change", params |-> [category |-> "coffee", change_pct |-> 25]],
     [rec_type |-> "price_change", params |-> [category |-> "coffee", change_pct |-> -50]],
     [rec_type |-> "price_change", params |-> [category |-> "coffee", change_pct |-> -200]],
     [rec_type |-> "price_change", params |-> [category |-> "tea", change_pct |-> 25]],
     [rec_type |-> "price_change", params |-> [category |-> "pizza", change_pct |-> 25]],
     [rec_type |-> "price_change", params |-> EmptyDict],
     [rec_type |-> "promo_campaign", params |-> [discount |-> 10, duration |-> 14]],
     [rec_type |-> "happy_hours", params |-> [hours |-> "15-17", discount |-> 20]],
     [rec_type |-> "menu_change", params |-> [action |-> "add", dish |-> "bagel"]],
     [rec_type |-> "menu_change", params |-> [action |-> "remove", dish |-> "bagel"]],
     [rec_type |-> "loyalty_program", params |-> [improvement |-> "cashback"]]}

\* The recommendations the forecasting session is driven with.
ForecastCalls ==
    {[rec_type |-> "price_change", params |-> [category |-> "coffee", change_pct |-> 25]],
     [rec_type |-> "price_change", params |-> [category |-> "coffee", change_pct |-> -50]],
     [rec_type |-> "price_change", params |-> [category |-> "tea", change_pct |-> 25]],
     [rec_type |-> "happy_hours", params |-> [hours |-> "15-17", discount |-> 20]]}

\* The recommendations the session that raises the chances is driven with.
ChanceCalls ==
    {[rec_type |-> "promo_campaign", params |-> [discount |-> 10, duration |-> 14]],
     [rec_type |-> "promo_campaign", params |-> EmptyDict],
     [rec_type |-> "loyalty_program", params |-> [improvement |-> "cashback"]],
     [rec_type |-> "happy_hours", params |-> [hours |-> "15-17", discount |-> 20]]}

ForecastDays == {7}
ForecastScenarios == {"none", "optimistic", "pessimistic"}
RoiInvestments == {100000, 300000}
RoiChangeTypes == {"equipment"}

\* The cycle the sessions that do not look at the transactions run on.
DefaultStream == <<<<1, 2>>, <<0, 1>>>>

\* RealTimeCafeSimulator(data, CafeConfig()), the generator at `position`
\* and its cycle s: the constructor trains the forecast model on data.
Constructed(s, data, position) ==
    /\ config = CafeConfig
    /\ applied_changes = <<>>
    /\ result = [op |-> "init"]
    /\ saved_history = <<>>
    /\ saved_config = SerializeConfig(CafeConfig)
    /\ clock = 0
    /\ stream = s
    /\ rng = position
    /\ historical_data = data
    /\ forecast_model = TrainModels(data)
    /\ simulated_data = [status |-> "none", rows |-> <<>>, saved_file |-> FALSE]
    /\ class_attributes = CafeConfig

\* RealTimeCafeDashboard() on the cycle s: the simulator is built on the
\* initial dataset.
Dashboard(s) ==
    LET initial == GenerateInitialData(CafeConfig, s)
    IN  Constructed(s, initial.rows, initial.position % StreamPeriod)

Init == Dashboard(DefaultStream)

Apply ==
    \E call \in Calls :
        /\ Len(applied_changes) < MaxLog
        /\ ApplyRecommendation(call.rec_type, call.params)

Forecast ==
    \E days \in ForecastDays, scenario \in ForecastScenarios : GetForecast(days, scenario)

Roi ==
    \E investment \in RoiInvestments, change_type \in RoiChangeTypes :
        GenerateRoiAnalysis(investment, change_type)

Next == Apply \/ Forecast \/ CompareScenarios \/ Roi \/ SaveCurrentState

Spec == Init /\ [][Next]_vars

ApplyForecast ==
    \E call \in ForecastCalls :
        /\ Len(applied_changes) < MaxLogForecast
        /\ ApplyRecommendation(call.rec_type, call.params)

NextForecast == ApplyForecast \/ Forecast

SpecForecast == Init /\ [][NextForecast]_vars

ApplyChances ==
    \E call \in ChanceCalls :
        /\ Len(applied_changes) < MaxLogChances
        /\ ApplyRecommendation(call.rec_type, call.params)

NextChances == ApplyChances \/ SaveCurrentState

SpecChances == Init /\ [][NextChances]_vars

\* The session that looks at the transactions: any cycle of the generator,
\* and a simulator built on the initial dataset or on an empty history.
DataCalls ==
    {[rec_type |-> "price_change", params |-> [category |-> "coffee", change_pct |-> 25]],
     [rec_type |-> "price_change", params |-> [category |-> "coffee", change_pct |-> -200]],
     [rec_type |-> "promo_campaign", params |-> [discount |-> 10, duration |-> 14]],
     [rec_type |-> "happy_hours", params |-> [hours |-> "15-17", discount |-> 20]]}

Streams == [1..StreamPeriod -> Variates]

InitData == \E s \in Streams : Dashboard(s) \/ Constructed(s, <<>>, 0)

\* The constructor has returned: DemandForecastModel(...) did not raise.
Built == forecast_model.status = "trained"

ApplyData ==
    \E call \in DataCalls :
        /\ Built
        /\ Len(applied_changes) < MaxLogData
        /\ ApplyRecommendation(call.rec_type, call.params)

ForecastData == Built /\ \E days \in ForecastDays : GetForecast(days, "none")

NextData == ApplyData \/ ForecastData

SpecData == InitData /\ [][NextData]_vars

\* The session that looks at the rows of the forecasts.
RowsCalls ==
    {[rec_type |-> "promo_campaign", params |-> [discount |-> 10, duration |-> 14]],
     [rec_type |-> "happy_hours", params |-> [hours |-> "15-17", discount |-> 20]]}

RowsDays == {1, 7}

ForecastStreams == [1..StreamPeriod -> ForecastVariates]

InitRows == \E s \in ForecastStreams : Dashboard(s)

ApplyRows ==
    \E call \in RowsCalls :
        /\ Len(applied_changes) < MaxLogRows
        /\ ApplyRecommendation(call.rec_type, call.params)

ForecastRows ==
    \E days \in RowsDays, scenario \in ForecastScenarios : GetForecast(days, scenario)

NextRows == ApplyRows \/ ForecastRows \/ Roi

SpecRows == InitRows /\ [][NextRows]_vars

\* The session of price changes none of which is below -100%, on a category
\* of the history (coffee), on one of the configuration that the history
\* lacks (tea) and on one the configuration lacks (pizza).
PriceCalls ==
    {[rec_type |-> "price_change", params |-> [category |-> "coffee", change_pct |-> 25]],
     [rec_type |-> "price_change", params |-> [category |-> "coffee", change_pct |-> -50]],
     [rec_type |-> "price_change", params |-> [category |-> "coffee", change_pct |-> -100]],
     [rec_type |-> "price_change", params |-> [category |-> "tea", change_pct |-> 25]],
     [rec_type |-> "price_change", params |-> [category |-> "pizza", change_pct |-> 25]]}

ApplyPrices ==
    \E call \in PriceCalls :
        /\ Len(applied_changes) < MaxLogPrices
        /\ ApplyRecommendation(call.rec_type, call.params)

NextPrices == ApplyPrices \/ Forecast

SpecPrices == Init /\ [][NextPrices]_vars

\* The session of calls as a caller of the engine may make them: a
\* change_pct and a discount that are no numbers, a kind that is none of the
\* five, a menu_change whose action is neither add nor remove.
InputCalls ==
    << [rec_type |-> "price_change", params |-> [category |-> "coffee", change_pct |-> 25]],
       [rec_type |-> "price_change", params |-> [category |-> "coffee", change_pct |-> "abc"]],
       [rec_type |-> "promo_campaign", params |-> [discount |-> "abc", duration |-> 14]],
       [rec_type |-> "discount_day", params |-> [weekday |-> "Monday"]],
       [rec_type |-> "menu_change", params |-> [action |-> "replace", dish |-> "bagel"]],
       [rec_type |-> "menu_change", params |-> [action |-> "add", dish |-> "bagel"]],
       [rec_type |-> "loyalty_program", params |-> [improvement |-> "cashback"]] >>

ApplyInput ==
    \E i \in DOMAIN InputCalls :
        /\ Len(applied_changes) < MaxLogInput
        /\ ApplyRecommendation(InputCalls[i].rec_type, InputCalls[i].params)

NextInput == ApplyInput \/ SaveCurrentState

SpecInput == Init /\ [][NextInput]_vars

\* The session in which the saves of an application may fail, each one or
\* several of them; the price change of -200% leaves min above max, and the
\* regeneration after it fails.
SaveCalls ==
    {[rec_type |-> "price_change", params |-> [category |-> "coffee", change_pct |-> 25]],
     [rec_type |-> "price_change", params |-> [category |-> "coffee", change_pct |-> -200]],
     [rec_type |-> "promo_campaign", params |-> [discount |-> 10, duration |-> 14]]}

ApplySave ==
    \E call \in SaveCalls, failing \in SUBSET Saves :
        /\ Len(applied_changes) < MaxLogSave
        /\ ApplyRecommendationSaving(call.rec_type, call.params, failing)

NextSave == ApplySave \/ Forecast

SpecSave == Init /\ [][NextSave]_vars

\* The session that looks at what the regeneration reads: price changes on
\* two categories and a promo campaign, on any cycle of the generator.
OrderCalls ==
    {[rec_type |-> "price_change", params |-> [category |-> "sandwich", change_pct |-> 25]],
     [rec_type |-> "price_change", params |-> [category |-> "coffee", change_pct |-> -50]],
     [rec_type |-> "promo_campaign", params |-> [discount |-> 10, duration |-> 14]]}

InitOrder == \E s \in Streams : Dashboard(s)

ApplyOrder ==
    \E call \in OrderCalls :
        /\ Len(applied_changes) < MaxLogOrder
        /\ ApplyRecommendation(call.rec_type, call.params)

NextOrder == ApplyOrder \/ Forecast

SpecOrder == InitOrder /\ [][NextOrder]_vars

----------------------------------------------------------------------------
(* Properties *)

\* The step is a call of apply_recommendation that returned.
Applied == clock' = clock + 1

\* The last record of a non-empty log.
Last(log) == log[Len(log)]

IsPrefix(s, t) == Len(s) <= Len(t) /\ SubSeq(t, 1, Len(s)) = s

KnownCategory(params) == Get(params, "category", "coffee") \in Categories

\* C1: in every reachable state every category of PRICE_SETTINGS has
\* min <= max, whatever change_pct the price changes were applied with
\* (change_pct below -100 included).
C1_MinLeMax ==
    \A c \in Categories : config.PRICE_SETTINGS[c].min <= config.PRICE_SETTINGS[c].max

\* C2: from the default configuration, PROMO_CHANCE, LOYALTY_CARD_CHANCE and
\* KNOWN_CUSTOMER_CHANCE stay within 0..100 under every sequence of
\* apply_recommendation calls.
C2_ChancesInRange ==
    /\ config.PROMO_CHANCE \in 0..100
    /\ config.LOYALTY_CARD_CHANCE \in 0..100
    /\ config.KNOWN_CUSTOMER_CHANCE \in 0..100

\* Three promo campaigns in a row: 30, 60, 90, and the third stops at 100.
C2_Witness ==
    /\ Len(applied_changes) = 3
    /\ \A i \in 1..3 : applied_changes[i].type = "promo_campaign"
    /\ config.PROMO_CHANCE = 100
    /\ config.LOYALTY_CARD_CHANCE = 60
    /\ config.KNOWN_CUSTOMER_CHANCE = 70

\* C3: a price_change whose category is no key of PRICE_SETTINGS leaves the
\* whole category mapping unchanged and returns profit_impact = 0,
\* customer_impact = 0 and the 'category not found' description.
C3_UnknownCategoryNoOp ==
    [][(Applied /\ result'.rec_type = "price_change" /\ ~KnownCategory(result'.params))
         => /\ config'.PRICE_SETTINGS = config.PRICE_SETTINGS
            /\ result'.value.profit_impact = 0
            /\ result'.value.customer_impact = 0
            /\ result'.value.description.text = "category not found"]_vars

\* A price change on the unknown category has just returned, after a price
\* change on a known one.
C3_Witness ==
    /\ Len(applied_changes) = 2
    /\ result.op = "apply_recommendation"
    /\ result.rec_type = "price_change"
    /\ result.params = [category |-> "pizza", change_pct |-> 25]
    /\ result.value.description = [text |-> "category not found", category |-> "pizza"]
    /\ config.PRICE_SETTINGS["coffee"].min = 187

\* C4: every apply_recommendation call that returns appends exactly one
\* record: the log grows by 1, the earlier records stay, and the new last
\* record carries the call's kind, its params and the returned effect.
C4_AppendsOneRecord ==
    [][Applied
         => /\ Len(applied_changes') = Len(applied_changes) + 1
            /\ SubSeq(applied_changes', 1, Len(applied_changes)) = applied_changes
            /\ Last(applied_changes').type = result'.rec_type
            /\ Last(applied_changes').params = result'.params
            /\ Last(applied_changes').effects = result'.value]_vars

\* The unknown-category no-op has been logged as the third record.
C4_Witness ==
    /\ Len(applied_changes) = 3
    /\ result.op = "apply_recommendation"
    /\ Last(applied_changes).type = "price_change"
    /\ Last(applied_changes).params = [category |-> "pizza", change_pct |-> 25]
    /\ Last(applied_changes).effects = result.value
    /\ result.value.profit_impact = 0

\* C5: the change log is append-only: over every step of every operation
\* the log before is a prefix of the log after.
C5_AppendOnly ==
    [][IsPrefix(applied_changes, applied_changes')]_vars

\* save_current_state has written a log of three records: the file holds
\* the serialized timestamps and the log still holds the original ones.
C5_Witness ==
    /\ Len(applied_changes) = 3
    /\ result.op = "save_current_state"
    /\ Len(saved_history) = 3
    /\ \A i \in 1..3 : /\ applied_changes[i].timestamp = <<"datetime", i - 1>>
                       /\ saved_history[i].timestamp = <<"isoformat", i - 1>>

\* C6: promo_campaign sets PROMO_CHANCE to min(100, old + 30) and
\* loyalty_program sets LOYALTY_CARD_CHANCE to min(100, old + 20); from 90 a
\* promo_campaign gives 100, and 100 again, never 120.
C6_ClampedIncrement ==
    [][/\ (Applied /\ result'.rec_type = "promo_campaign")
            => /\ config'.PROMO_CHANCE =
                    (IF config.PROMO_CHANCE > 70 THEN 100 ELSE config.PROMO_CHANCE + 30)
               /\ (config.PROMO_CHANCE \in {90, 100} => config'.PROMO_CHANCE = 100)
       /\ (Applied /\ result'.rec_type = "loyalty_program")
            => config'.LOYALTY_CARD_CHANCE =
                    (IF config.LOYALTY_CARD_CHANCE > 80 THEN 100
                     ELSE config.LOYALTY_CARD_CHANCE + 20)]_vars

\* Five applications, four of them promo campaigns (30, 60, 90, then 100
\* and 100 again) and one a loyalty improvement (60 to 80).
C6_Witness ==
    /\ Len(applied_changes) = 5
    /\ \A i \in 1..4 : applied_changes[i].type = "promo_campaign"
    /\ applied_changes[5].type = "loyalty_program"
    /\ config.PROMO_CHANCE = 100
    /\ config.LOYALTY_CARD_CHANCE = 80

\* C7: happy_hours and menu_change (add or remove) leave every field of the
\* configuration unchanged; only the change log grows.
C7_NoConfigMutation ==
    [][(Applied /\ result'.rec_type \in {"happy_hours", "menu_change"})
         => /\ config' = config
            /\ Len(applied_changes') = Len(applied_changes) + 1]_vars

\* A menu removal has returned after a price change and happy hours: the
\* configuration is the one the price change left.
C7_Witness ==
    /\ Len(applied_changes) = 3
    /\ applied_changes[1].type = "price_change"
    /\ applied_changes[2].type = "happy_hours"
    /\ result.op = "apply_recommendation"
    /\ result.rec_type = "menu_change"
    /\ result.params.action = "remove"
    /\ config.PRICE_SETTINGS["tea"].max = 250
    /\ config.PROMO_CHANCE = 30

\* C8: for a price_change on a known category the effect is a function of
\* change_pct alone: for change_pct > 0, profit_impact = 0.08 * change_pct and
\* customer_impact = -0.05 * |change_pct|; for change_pct <= 0,
\* profit_impact = -0.03 * |change_pct| and customer_impact = 0.08 * |change_pct|
\* (impacts in hundredths).
C8_PriceChangeEffect ==
    [][(Applied /\ result'.rec_type = "price_change" /\ KnownCategory(result'.params))
         => LET pct == Get(result'.params, "change_pct", 0)
                mag == IF pct < 0 THEN -pct ELSE pct
            IN  /\ pct > 0 => /\ result'.value.profit_impact = 8 * pct
                              /\ result'.value.customer_impact = -(5 * mag)
                /\ pct <= 0 => /\ result'.value.profit_impact = -(3 * mag)
                               /\ result'.value.customer_impact = 8 * mag]_vars

\* A discount of 50% on coffee has returned -1.5 and +4.0 on a configuration
\* and a log that earlier changes have altered.
C8_Witness ==
    /\ Len(applied_changes) = 3
    /\ result.op = "apply_recommendation"
    /\ result.rec_type = "price_change"
    /\ result.params = [category |-> "coffee", change_pct |-> -50]
    /\ result.value.profit_impact = -150
    /\ result.value.customer_impact = 400
    /\ config.PROMO_CHANCE = 60
    /\ config.PRICE_SETTINGS["coffee"].min = 93

\* n is x/100 rounded to the nearest integer (a half may go either way).
IsNearest(n, x) == 2 * (IF 100 * n > x THEN 100 * n - x ELSE x - 100 * n) <= 100

\* n is x/100 with its fraction dropped: between 0 and x/100, less than 1 from it.
IsTruncation(n, x) ==
    /\ (x >= 0 => 100 * n <= x /\ x < 100 * n + 100)
    /\ (x <= 0 => 100 * n >= x /\ x > 100 * n - 100)

\* A price change on category c with percentage pct touches nothing but the
\* min and max of c.
PriceChangeFrame(c) ==
    /\ \A d \in Categories \ {c} : config'.PRICE_SETTINGS[d] = config.PRICE_SETTINGS[d]
    /\ config'.PRICE_SETTINGS[c].cost_pct = config.PRICE_SETTINGS[c].cost_pct
    /\ config'.PRICE_SETTINGS[c].demand_elasticity = config.PRICE_SETTINGS[c].demand_elasticity
    /\ config'.PROMO_CHANCE = config.PROMO_CHANCE
    /\ config'.LOYALTY_CARD_CHANCE = config.LOYALTY_CARD_CHANCE
    /\ config'.KNOWN_CUSTOMER_CHANCE = config.KNOWN_CUSTOMER_CHANCE

\* C9, as claimed: a price_change on a known category replaces min and max by
\* old * (1 + pct/100) rounded to the nearest integer and changes nothing else.
C9_RoundedToNearest ==
    [][(Applied /\ result'.rec_type = "price_change" /\ KnownCategory(result'.params))
         => LET c == Get(result'.params, "category", "coffee")
                pct == Get(result'.params, "change_pct", 0)
            IN  /\ IsNearest(config'.PRICE_SETTINGS[c].min,
                             config.PRICE_SETTINGS[c].min * (100 + pct))
                /\ IsNearest(config'.PRICE_SETTINGS[c].max,
                             config.PRICE_SETTINGS[c].max * (100 + pct))
                /\ PriceChangeFrame(c)]_vars

\* C9, amended: a price_change on a known category replaces min and max by
\* old * (1 + pct/100) with the fraction dropped (truncated towards zero, as
\* int() does), and changes no other category and no other configuration field.
C9_TruncatedTowardsZero ==
    [][(Applied /\ result'.rec_type = "price_change" /\ KnownCategory(result'.params))
         => LET c == Get(result'.params, "category", "coffee")
                pct == Get(result'.params, "change_pct", 0)
            IN  /\ IsTruncation(config'.PRICE_SETTINGS[c].min,
                                config.PRICE_SETTINGS[c].min * (100 + pct))
                /\ IsTruncation(config'.PRICE_SETTINGS[c].max,
                                config.PRICE_SETTINGS[c].max * (100 + pct))
                /\ PriceChangeFrame(c)]_vars

\* Two rises of 25% on coffee: 150 -> 187 (187.5) -> 233 (233.75) and
\* 300 -> 375 -> 468 (468.75); the other categories keep their defaults.
C9_Witness ==
    /\ Len(applied_changes) = 2
    /\ result.op = "apply_recommendation"
    /\ result.params = [category |-> "coffee", change_pct |-> 25]
    /\ config.PRICE_SETTINGS["coffee"].min = 233
    /\ config.PRICE_SETTINGS["coffee"].max = 468
    /\ config.PRICE_SETTINGS["tea"] = DefaultPriceSettings["tea"]

\* The positions of the price_change records of a log.
PriceChangeIndexes(log) == {i \in 1..Len(log) : log[i].type = "price_change"}

\* The positions of the five most recent price_change records of a log.
FiveLatestPriceChanges(log) ==
    {i \in PriceChangeIndexes(log) :
        Cardinality({j \in PriceChangeIndexes(log) : j > i}) < 5}

\* The positions of the price_change records among the last five records.
PriceChangesInLastFive(log) == {i \in PriceChangeIndexes(log) : i > Len(log) - 5}

\* The sum of change_pct over the records at positions I that name category cat.
RECURSIVE SumPct(_, _, _)
SumPct(log, I, cat) ==
    IF I = {}
    THEN 0
    ELSE LET i == CHOOSE j \in I : TRUE
         IN  (IF Get(log[i].params, "category", "coffee") = cat
              THEN Get(log[i].params, "change_pct", 0)
              ELSE 0) + SumPct(log, I \ {i}, cat)

\* price_changes of `changes` holds, for every category, the sum over I.
SumsOver(changes, log, I) ==
    \A cat \in Categories \cup {"pizza"} :
        Get(Get(changes, "price_changes", EmptyDict), cat, 0) = SumPct(log, I, cat)

\* C10, as claimed: price_changes[category] of the changeSummary of
\* get_forecast is the sum of change_pct over the five most recent
\* price_change records of the log, whatever was applied in between.
C10_FiveLatestPriceChanges ==
    result.op = "get_forecast"
        => SumsOver(result.changes, applied_changes, FiveLatestPriceChanges(applied_changes))

\* C10, amended: price_changes[category] is the sum of change_pct over the
\* price_change records among the last five records of the log (of any
\* kind): a price change followed by five later applications is not counted,
\* and entries of one category add up.
C10_PriceChangesInLastFive ==
    result.op = "get_forecast"
        => SumsOver(result.changes, applied_changes, PriceChangesInLastFive(applied_changes))

\* A forecast over a log of six whose first record, a price change, has left
\* the window; the window holds happy hours and coffee changes summing to -25.
C10_Witness ==
    /\ Len(applied_changes) = 6
    /\ applied_changes[1].type = "price_change"
    /\ applied_changes[1].params.category = "coffee"
    /\ \E i \in 2..6 : applied_changes[i].type = "happy_hours"
    /\ result.op = "get_forecast"
    /\ "price_changes" \in DOMAIN result.changes
    /\ Get(result.changes.price_changes, "coffee", 0) = -25

\* The last five records of a log (all of them when there are fewer).
LastFive(log) ==
    LET n == Min(5, Len(log)) IN [k \in 1..n |-> log[Len(log) - n + k]]

\* The log with the record at position i replaced by one of another call.
Replaced(log, i, call) ==
    [log EXCEPT ![i] = [@ EXCEPT !.type = call.rec_type, !.params = call.params]]

\* C11: get_forecast reads only the five most recent records of the log: a
\* record followed by five or more later applications does not contribute
\* (replacing it by any other record leaves the changeSummary as it is), and
\* a log that consists of the same last five records gives the same
\* changeSummary.
C11_OnlyLastFive ==
    result.op = "get_forecast"
        => /\ \A i \in 1..(Len(applied_changes) - 5) : \A call \in ForecastCalls :
                 ChangesSummary(Replaced(applied_changes, i, call), result.scenario)
                     = result.changes
           /\ ChangesSummary(LastFive(applied_changes), result.scenario) = result.changes

\* A forecast over a log of six: the first record is a coffee price change,
\* the five after it are happy hours, and the changeSummary is empty.
C11_Witness ==
    /\ Len(applied_changes) = 6
    /\ applied_changes[1].type = "price_change"
    /\ applied_changes[1].params = [category |-> "coffee", change_pct |-> 25]
    /\ \A i \in 2..6 : applied_changes[i].type = "happy_hours"
    /\ result.op = "get_forecast"
    /\ result.scenario = "none"
    /\ result.changes = EmptyDict

\* The keys of a changeSummary the scenario branch writes.
OverlayKeys == {"new_customers_pct", "promo_increase"}

\* C12: the scenario overlay: "optimistic" sets new_customers_pct = 20 and
\* promo_increase = 10, "pessimistic" sets -10 and -5, whatever the log
\* holds; it writes these two keys only (the values are fixed, nothing of the
\* price-change-derived summary is combined into them, and price_changes
\* stays as derived from the log); with no scenario neither key is present.
C12_ScenarioOverlay ==
    result.op = "get_forecast"
        => /\ result.scenario = "optimistic"
                => /\ OverlayKeys \subseteq DOMAIN result.changes
                   /\ result.changes.new_customers_pct = 20
                   /\ result.changes.promo_increase = 10
           /\ result.scenario = "pessimistic"
                => /\ OverlayKeys \subseteq DOMAIN result.changes
                   /\ result.changes.new_customers_pct = -10
                   /\ result.changes.promo_increase = -5
           /\ result.scenario = "none" => OverlayKeys \cap DOMAIN result.changes = {}
           /\ DOMAIN result.changes \ OverlayKeys \subseteq {"price_changes"}
           /\ ("price_changes" \in DOMAIN result.changes)
                <=> PriceChangesInLastFive(applied_changes) # {}
           /\ SumsOver(result.changes, applied_changes,
                       PriceChangesInLastFive(applied_changes))

\* A pessimistic forecast over a log that holds a tea price change.
C12_Witness ==
    /\ result.op = "get_forecast"
    /\ result.scenario = "pessimistic"
    /\ Len(applied_changes) = 2
    /\ result.changes = [price_changes |-> [tea |-> 25],
                         new_customers_pct |-> -10, promo_increase |-> -5]

\* The four change sets compare_scenarios forecasts, each over 30 days.
FixedScenarios ==
    << [name |-> "baseline", days |-> 30, changes |-> EmptyDict],
       [name |-> "active promo", days |-> 30,
        changes |-> [promo_increase |-> 30, new_customers_pct |-> 15]],
       [name |-> "price increase", days |-> 30,
        changes |-> [price_changes |-> [coffee |-> 10, dessert |-> 10]]],
       [name |-> "menu optimising", days |-> 30, changes |-> [new_customers_pct |-> 5]] >>

\* C15: compare_scenarios does not reflect the change log: whatever was
\* applied, it forecasts the same four fixed change sets, each over 30 days,
\* and it changes neither the log nor the configuration.
C15_ScenariosIgnoreLog ==
    [][result'.op = "compare_scenarios"
         => /\ result'.forecasts = FixedScenarios
            /\ applied_changes' = applied_changes
            /\ config' = config]_vars

\* A comparison made after a coffee price change: its baseline is still
\* the empty change set.
C15_Witness ==
    /\ result.op = "compare_scenarios"
    /\ Len(applied_changes) = 2
    /\ applied_changes[1].type = "price_change"
    /\ applied_changes[1].params = [category |-> "coffee", change_pct |-> 25]
    /\ config.PRICE_SETTINGS["coffee"].min = 187
    /\ result.forecasts[1].changes = EmptyDict

\* C13: get_forecast is read-only on the engine state: a get_forecast step
\* changes neither the change log nor the configuration, so a get_forecast
\* that follows a get_forecast with the same scenario, no
\* apply_recommendation between them, builds the same changeSummary.
C13_ForecastReadOnly ==
    [][result'.op = "get_forecast"
         => /\ applied_changes' = applied_changes
            /\ config' = config
            /\ (result.op = "get_forecast" /\ result.scenario = result'.scenario)
                 => result'.changes = result.changes]_vars

\* An optimistic forecast over two coffee price changes that started where
\* a forecast before it had left the random generator (the regeneration of
\* the last apply_recommendation leaves it at position 0).
C13_Witness ==
    /\ result.op = "get_forecast"
    /\ result.scenario = "optimistic"
    /\ Len(applied_changes) = 2
    /\ simulated_data.status = "ok"
    /\ result.start = 1
    /\ rng = 0
    /\ result.changes = [price_changes |-> [coffee |-> -25],
                         new_customers_pct |-> 20, promo_increase |-> 10]

\* The sum of predicted_profit over the first k rows, row after row.
RECURSIVE PrefixSum(_, _)
PrefixSum(forecast, k) ==
    IF k = 0 THEN <<0, 1>>
    ELSE RAdd(PrefixSum(forecast, k - 1), forecast[k].predicted_profit)

\* C14: the forecast get_forecast returns for days >= 1 has one row a day,
\* in day order (day = 1..days, the dates ascending), and cumulative_profit
\* of row k is the sum of predicted_profit over the rows 1..k.
C14_RowsAndCumulative ==
    (result.op = "get_forecast" /\ result.days >= 1)
        => LET forecast == ForecastOf(result)
           IN  /\ Len(forecast) = result.days
               /\ \A k \in 1..result.days :
                    /\ forecast[k].day = k
                    /\ forecast[k].date = k - 1
                    /\ forecast[k].cumulative_profit = PrefixSum(forecast, k)

\* A pessimistic forecast of 7 days whose rows differ: the last cumulative
\* profit is more than the last predicted profit, the first is equal to it.
C14_Witness ==
    /\ result.op = "get_forecast"
    /\ result.days = 7
    /\ result.scenario = "pessimistic"
    /\ Len(applied_changes) = 1
    /\ LET forecast == ForecastOf(result)
       IN  /\ forecast[1].cumulative_profit = forecast[1].predicted_profit
           /\ RLess(forecast[7].predicted_profit, forecast[7].cumulative_profit)
           /\ forecast[1].predicted_profit # forecast[2].predicted_profit

\* C16: generate_roi_analysis for 'equipment' and an investment I > 0, the
\* monthly profit M being the total of the 90-day forecast divided by 3:
\* additional_profit = (1.2 * M - M) * 12, roi = (additional_profit - I) / I
\* * 100; the recommendation is RECOMMEND if and only if roi > 30, DO NOT
\* RECOMMEND if roi < 0, and CONSIDER otherwise.
C16_EquipmentRoi ==
    (/\ result.op = "generate_roi_analysis"
     /\ result.change_type = "equipment"
     /\ result.investment > 0)
        => LET analysis == RoiOf(result)
               I == <<result.investment, 1>>
               M == RDiv(TotalProfit(ForecastOf(result)), <<3, 1>>)
               additional_profit == RMul(RSub(RMul(<<6, 5>>, M), M), <<12, 1>>)
               roi == RMul(RDiv(RSub(additional_profit, I), I), <<100, 1>>)
           IN  /\ analysis.additional_profit_expected = additional_profit
               /\ analysis.roi_percent = roi
               /\ analysis.recommendation = "RECOMMEND" <=> RLess(<<30, 1>>, roi)
               /\ RLess(roi, <<0, 1>>) => analysis.recommendation = "DO NOT RECOMMEND"
               /\ (~RLess(roi, <<0, 1>>) /\ ~RLess(<<30, 1>>, roi))
                    => analysis.recommendation = "CONSIDER"

\* An analysis of 300000 into equipment whose roi lies between 0 and 30.
C16_Witness ==
    /\ result.op = "generate_roi_analysis"
    /\ result.change_type = "equipment"
    /\ result.investment = 300000
    /\ RoiOf(result).recommendation = "CONSIDER"
    /\ RLess(<<0, 1>>, RoiOf(result).roi_percent)

\* C17, as claimed: a forecast model built on an empty history does not
\* fail: training succeeds, and forecast(7, {}) returns 7 rows whose
\* predicted_profit is 10000 times a jitter in [0.85, 1.15] (the default
\* base, weekday factor 1.0 on every day).
C17_EmptyHistoryForecasts ==
    historical_data = <<>>
        => /\ forecast_model.status = "trained"
           /\ LET forecast == ForecastDemand(config, forecast_model, historical_data,
                                             stream, rng, Weekday(clock), 7, EmptyDict)
              IN  /\ Len(forecast) = 7
                  /\ \A k \in 1..7 :
                       /\ ~RLess(forecast[k].predicted_profit, <<8500, 1>>)
                       /\ ~RLess(<<11500, 1>>, forecast[k].predicted_profit)

\* The rows of a dataset lie within the price bounds of price_settings, and
\* their cost and profit (in hundredths) are derived from the price.
RowsWithin(rows, price_settings) ==
    \A i \in DOMAIN rows :
        LET row == rows[i]
            settings == price_settings[row.dish_category]
        IN  /\ settings.min <= row.price
            /\ row.price <= settings.max
            /\ row.cost = row.price * settings.cost_pct
            /\ row.profit = (100 * row.price - row.cost) * row.quantity

\* C18: every transaction of the initial dataset and of a regenerated batch
\* has a price within [min, max] of its category as configured when it was
\* generated (the initial configuration; the configuration the
\* apply_recommendation that regenerates has just written), cost = price *
\* cost_% / 100 and profit = (price - cost) * quantity.
C18_TransactionsWithinBounds ==
    /\ RowsWithin(historical_data, DefaultPriceSettings)
    /\ RowsWithin(simulated_data.rows, config.PRICE_SETTINGS)

\* A batch regenerated after a coffee price rise of 25%: it holds a coffee
\* sold above the old maximum of 300 and a snack sold three at a time.
C18_Witness ==
    /\ simulated_data.status = "ok"
    /\ config.PRICE_SETTINGS["coffee"].max = 375
    /\ \E i \in DOMAIN simulated_data.rows :
         /\ simulated_data.rows[i].dish_category = "coffee"
         /\ simulated_data.rows[i].price > 300
    /\ \E i \in DOMAIN simulated_data.rows :
         /\ simulated_data.rows[i].dish_category = "snack"
         /\ simulated_data.rows[i].quantity = 3
    /\ historical_data # <<>>

\* The rows of a batch without the wall-clock instant of their timestamps.
WithoutStartDate(rows) ==
    [i \in DOMAIN rows |-> [rows[i] EXCEPT !.timestamp.start_date = 0]]

\* A regeneration that follows another one under the same configuration.
Regenerated == Applied /\ config' = config /\ simulated_data.status # "none"

C20_DistinctQuantityTables ==
    /\ historical_data # <<>>
         => historical_data = InitialRows(CafeConfig, stream, 0, 0, <<>>,
                                          QuantityDistributionKeys,
                                          QuantityDistributionWeights).rows
    /\ \A i \in DOMAIN simulated_data.rows : simulated_data.rows[i].quantity \in {1, 2, 3}

\* The multiplier of one entry (category, pct) of price_changes:
\* 1 + 0.3 * ((1 + pct/100) * (1 + elasticity * pct/100) - 1), the
\* elasticity in tenths.
EntryMultiplier(category, pct) ==
    LET elasticity == DefaultPriceSettings[category].demand_elasticity
    IN  Rat(1000000 + 3 * ((100 + pct) * (1000 + elasticity * pct) - 100000), 1000000)

\* The product of the multipliers of the entries of price_changes whose
\* category is in todo.
RECURSIVE EntriesMultiplier(_, _)
EntriesMultiplier(price_changes, todo) ==
    IF todo = {}
    THEN <<1, 1>>
    ELSE LET category == CHOOSE c \in todo : TRUE
         IN  RMul(EntryMultiplier(category, price_changes[category]),
                  EntriesMultiplier(price_changes, todo \ {category}))

\* 1 + min(0.15 * p, 0.5)
PromoMultiplier(p) == IF 15 * p < 50 THEN Rat(100 + 15 * p, 100) ELSE <<3, 2>>

\* 1 + 0.8 * c / 100
CustomersMultiplier(c) == Rat(1000 + 8 * c, 1000)

\* The base profit times the multipliers of the entries of price_changes
\* whose category is in categories, of promo_increase and of
\* new_customers_pct.
Multiplied(base, changes, categories) ==
    LET price_changes == Get(changes, "price_changes", EmptyDict)
    IN  RMul(RMul(RMul(base, EntriesMultiplier(price_changes,
                                               DOMAIN price_changes \cap categories)),
                  PromoMultiplier(Get(changes, "promo_increase", 0))),
             CustomersMultiplier(Get(changes, "new_customers_pct", 0)))

\* The values of promo_increase and of new_customers_pct the formula of the
\* adjusted profit is checked on.
PromoIncreases == {0, 3, 4, 30}
NewCustomers == {5, 15}

\* The change summaries the forecast of the last get_forecast is looked at
\* with: the one the call built, and the same with another promo_increase
\* or another new_customers_pct.
SummariesOf(changes) ==
    {changes} \cup {DictSet(changes, "promo_increase", p) : p \in PromoIncreases}
              \cup {DictSet(changes, "new_customers_pct", c) : c \in NewCustomers}

\* base_daily_profit of forecast_demand on the history of the simulator
BaseDailyProfit ==
    IF Len(historical_data) > 0 THEN RMul(MeanProfit(historical_data), <<50, 1>>)
    ELSE <<10000, 1>>

\* adjusted_profit of forecast_demand equals the base profit with the
\* entries of the categories in `categories` multiplied in
AdjustedAsMultiplied(changes, categories) ==
    AdjustedProfit(class_attributes, forecast_model, BaseDailyProfit, changes)
        = Multiplied(BaseDailyProfit, changes, categories)

\* C21, as claimed: the adjusted profit of a forecast equals the base profit
\* multiplied, for each entry (category, pct) of price_changes (each one
\* that names a category of the configuration, which has an elasticity), by
\* 1 + 0.3 * ((1 + pct/100) * (1 + elasticity * pct/100) - 1), then by
\* 1 + min(0.15 * p, 0.5) for promo_increase p, then by 1 + 0.8 * c / 100 for
\* new_customers_pct c.
C21_EveryEntryMultiplied ==
    result.op = "get_forecast"
        => \A changes \in SummariesOf(result.changes) :
              AdjustedAsMultiplied(changes, Categories)

\* C21, amended: the multiplier of an entry of price_changes is applied only
\* when the category of the entry has a trained per-category mean (it occurs
\* in the history the model was trained on); an entry of any other category
\* is skipped.  The multipliers of promo_increase and new_customers_pct are
\* as claimed, and the promo multiplier never exceeds 1.5.
C21_TrainedEntriesMultiplied ==
    result.op = "get_forecast"
        => /\ \A changes \in SummariesOf(result.changes) :
                 AdjustedAsMultiplied(changes, DOMAIN forecast_model.category_means)
           /\ \A p \in PromoIncreases : ~RLess(<<3, 2>>, PromoMultiplier(p))

\* An optimistic forecast over a coffee rise and a coffee discount (coffee
\* is in the history, the percentages add up to -25): the adjusted profit is
\* the base 7875 times 0.9925 times 1.5 times 1.16.
C21_Witness ==
    /\ result.op = "get_forecast"
    /\ result.scenario = "optimistic"
    /\ Len(applied_changes) = 2
    /\ "price_changes" \in DOMAIN result.changes
    /\ result.changes.price_changes = [coffee |-> -25]
    /\ "coffee" \in DOMAIN forecast_model.category_means
    /\ BaseDailyProfit = <<7875, 1>>
    /\ AdjustedProfit(class_attributes, forecast_model, BaseDailyProfit, result.changes)
         = RMul(RMul(RMul(<<7875, 1>>, <<397, 400>>), <<3, 2>>), <<29, 25>>)

\* The parameters of a call that are supplied as numbers.
NumericParameters == {"change_pct", "discount", "duration"}

\* One of the numeric parameters of params is no number.
HasNonNumeric(params) ==
    \E name \in DOMAIN params \cap NumericParameters : ~IsNumber(params[name])

\* C22, as claimed: an apply_recommendation call with a parameter that is no
\* number (a change_pct, a discount) does not fail and, returning, has left
\* the configuration as it was and gives a no-op effect (zero impacts, a
\* description): no error propagates out of any call.
C22_NonNumericNoOp ==
    [][result'.op = "apply_recommendation"
         => /\ "value" \in DOMAIN result'
            /\ HasNonNumeric(result'.params)
                 => /\ config' = config
                    /\ result'.value.profit_impact = 0
                    /\ result'.value.customer_impact = 0
                    /\ result'.value.description.text # ""]_vars

\* The five kinds apply_recommendation has a branch for.
KnownKinds ==
    {"price_change", "promo_campaign", "happy_hours", "menu_change", "loyalty_program"}

\* The call has no branch: its kind is none of the five, or it is a
\* menu_change whose action is neither add nor remove.
Branchless(rec_type, params) ==
    \/ rec_type \notin KnownKinds
    \/ rec_type = "menu_change" /\ Get(params, "action", "add") \notin {"add", "remove"}

\* C28: apply_recommendation with a kind outside the five known kinds, or
\* menu_change with an action other than add or remove, leaves the
\* configuration unchanged, returns the zero effect (profit_impact = 0,
\* customer_impact = 0, empty description) and still appends one record,
\* which carries that effect.
C28_UnknownKindZeroEffect ==
    [][(Applied /\ "value" \in DOMAIN result'
                /\ Branchless(result'.rec_type, result'.params))
         => /\ config' = config
            /\ result'.value.profit_impact = 0
            /\ result'.value.customer_impact = 0
            /\ result'.value.description = [text |-> ""]
            /\ Len(applied_changes') = Len(applied_changes) + 1
            /\ SubSeq(applied_changes', 1, Len(applied_changes)) = applied_changes
            /\ Last(applied_changes').type = result'.rec_type
            /\ Last(applied_changes').effects.description = [text |-> ""]]_vars

\* A call of an unknown kind and a menu_change 'replace' have returned after
\* a loyalty improvement: the log holds the three, the configuration is the
\* one the loyalty improvement left.
C28_Witness ==
    /\ Len(applied_changes) = 3
    /\ applied_changes[1].type = "loyalty_program"
    /\ applied_changes[2].type = "discount_day"
    /\ applied_changes[2].effects = NoEffects
    /\ applied_changes[3].type = "menu_change"
    /\ applied_changes[3].params.action = "replace"
    /\ applied_changes[3].effects = NoEffects
    /\ result.op = "apply_recommendation"
    /\ config.LOYALTY_CARD_CHANCE = 80
    /\ config.PROMO_CHANCE = 30

\* CafeConfig(): an instance created now reads the attributes of the class.
NewCafeConfig == class_attributes

\* C25, as claimed: the configuration mutations are confined to the
\* configuration instance of the engine: after any sequence of
\* apply_recommendation calls, a CafeConfig instance created afterwards, and
\* the class CafeConfig itself, show the default price bounds and the
\* default probabilities.
C25_MutationsConfined ==
    /\ NewCafeConfig = CafeConfig
    /\ class_attributes.PRICE_SETTINGS = DefaultPriceSettings

\* C23: a persistence failure never fails an application: whichever of the
\* saves of an apply_recommendation fail (change log, configuration,
\* regenerated dataset), and when the regeneration itself fails, the call
\* returns its effect, the configuration keeps the mutation of the call and
\* the log keeps the appended record; the operations after it run on that
\* configuration and that log.
C23_SaveFailuresTolerated ==
    [][/\ Applied
            => /\ "value" \in DOMAIN result'
               /\ result'.value = Effects(config, result'.rec_type, result'.params)
               /\ config' = ConfigAfter(config, result'.rec_type, result'.params)
               /\ Len(applied_changes') = Len(applied_changes) + 1
               /\ Last(applied_changes').type = result'.rec_type
               /\ Last(applied_changes').params = result'.params
               /\ Last(applied_changes').effects = result'.value
       /\ result'.op = "get_forecast"
            => /\ result'.changes = ChangesSummary(applied_changes, result'.scenario)
               /\ config' = config
               /\ applied_changes' = applied_changes]_vars

\* A forecast made after two applications: the saves of the promo campaign
\* all failed (the files hold the state of construction), then the price
\* change of -200% was saved to the log file only and its regeneration
\* failed; the configuration holds both mutations, the log both records, and
\* the forecast has summed the price change.
C23_Witness ==
    /\ result.op = "get_forecast"
    /\ Len(applied_changes) = 2
    /\ applied_changes[1].type = "promo_campaign"
    /\ applied_changes[2].type = "price_change"
    /\ config.PROMO_CHANCE = 60
    /\ config.PRICE_SETTINGS["coffee"].min = -150
    /\ saved_config = SerializeConfig(CafeConfig)
    /\ Len(saved_history) = 2
    /\ simulated_data.status = "error"
    /\ ~simulated_data.saved_file
    /\ "price_changes" \in DOMAIN result.changes
    /\ result.changes.price_changes = [coffee |-> -200]

\* The transaction drawn at position pos of the cycle: its price lies at
\* the same place between the bounds of settings as the variate of the
\* price, and its promo flag is that of chance on the variate of the promo.
DrawnUnder(row, settings, chance, price_variate, promo_variate) ==
    /\ row.price = RandInt(price_variate, settings.min, settings.max)
    /\ row.promo_applied = (IF Chance(promo_variate, chance) THEN 1 ELSE 0)

\* C24: within one apply_recommendation the steps are ordered: the
\* configuration is written, then the record is appended, then the change
\* log (which holds the new record) and the configuration (mutated) are
\* saved, then the batch is regenerated, reading the mutated configuration:
\* the first transaction of the batch has its price drawn between the new
\* price bounds and its promo flag drawn with the new PROMO_CHANCE.
C24_OrderOfSteps ==
    [][Applied
         => /\ Len(saved_history') = Len(applied_changes) + 1
            /\ saved_history' = SerializeChanges(applied_changes')
            /\ Last(saved_history').type = result'.rec_type
            /\ Last(saved_history').effects = result'.value
            /\ saved_config' = SerializeConfig(config')
            /\ simulated_data'.status = "ok"
                 => LET row == simulated_data'.rows[1]
                        known == row.client_id # <<>>
                    IN  DrawnUnder(row, config'.PRICE_SETTINGS[row.dish_category],
                                   config'.PROMO_CHANCE,
                                   Variate(stream, 3),
                                   Variate(stream, IF known THEN 8 ELSE 7))]_vars

\* A batch regenerated by a promo campaign applied after a sandwich price
\* rise: its first transaction is a sandwich sold at the new minimum, 312,
\* its promo flag is set by a variate (1/2) that the old PROMO_CHANCE of 30
\* would not have let through.
C24_Witness ==
    /\ Len(applied_changes) = 2
    /\ applied_changes[1].params = [category |-> "sandwich", change_pct |-> 25]
    /\ applied_changes[2].type = "promo_campaign"
    /\ result.op = "apply_recommendation"
    /\ config.PROMO_CHANCE = 60
    /\ simulated_data.status = "ok"
    /\ simulated_data.rows[1].dish_category = "sandwich"
    /\ simulated_data.rows[1].price = 312
    /\ simulated_data.rows[1].promo_applied = 1
    /\ ~Chance(Variate(stream, IF simulated_data.rows[1].client_id # <<>> THEN 8 ELSE 7), 30)
    /\ Len(saved_history) = 2
    /\ saved_config.PROMO_CHANCE = 60

\* Every category of the price settings has 0 <= min <= max.
OrderedBounds(price_settings) ==
    \A c \in DOMAIN price_settings :
        /\ 0 <= price_settings[c].min
        /\ price_settings[c].min <= price_settings[c].max

\* C26: from a configuration in which every category has 0 <= min <= max,
\* any sequence of price_change applications whose change_pct are all
\* >= -100 keeps 0 <= min <= max for every category: a price change applied
\* to ordered bounds leaves ordered bounds.
C26_BoundsStayOrdered ==
    /\ OrderedBounds(config.PRICE_SETTINGS)
    /\ \A call \in PriceCalls :
          /\ call.params.change_pct >= -100
          /\ OrderedBounds(ConfigAfter(config, call.rec_type, call.params).PRICE_SETTINGS)

\* Coffee after three discounts of 50% and a rise of 25%: 150 -> 75 -> 37 ->
\* 18 -> 22 and 300 -> 150 -> 75 -> 37 -> 46, fractions dropped on the way.
C26_Witness ==
    /\ Len(applied_changes) = 4
    /\ \A i \in 1..3 : applied_changes[i].params = [category |-> "coffee", change_pct |-> -50]
    /\ applied_changes[4].params = [category |-> "coffee", change_pct |-> 25]
    /\ config.PRICE_SETTINGS["coffee"].min = 22
    /\ config.PRICE_SETTINGS["coffee"].max = 46
    /\ result.op = "apply_recommendation"

\* The record is a price_change on a category the configuration does not
\* have, or one the trained per-category means do not have.
Foreign(record) ==
    /\ record.type = "price_change"
    /\ LET category == Get(record.params, "category", "coffee")
       IN  \/ category \notin Categories
           \/ category \notin DOMAIN forecast_model.category_means

\* The last five records of the log without the foreign ones.
WithoutForeign(log) == SelectSeq(LastFive(log), LAMBDA record : ~Foreign(record))

\* adjusted_profit of the forecast of the simulator under `changes`.
AdjustedUnder(changes) ==
    AdjustedProfit(class_attributes, forecast_model, BaseDailyProfit, changes)

AfterRegeneration(cfg) == SimulatedRows(cfg, stream, 0, 0, 0, <<>>).position % StreamPeriod

\* C29: the jitter of the forecasts is not reseeded per call but is reset by
\* every application: a get_forecast starts where the random source stands
\* and leaves it one draw a day further, so the second of two consecutive
\* get_forecast calls continues where the first stopped; right after an
\* apply_recommendation the state of the random source is a function of the
\* resulting configuration only, whatever was drawn before.
C29_JitterContinuesApplyResets ==
    [][/\ result'.op = "get_forecast"
            => /\ result'.start = rng
               /\ rng' = (rng + result'.days) % StreamPeriod
               /\ result.op = "get_forecast"
                    => result'.start = (result.start + result.days) % StreamPeriod
       /\ Applied => rng' = AfterRegeneration(config')]_vars

\* The second of two consecutive forecasts after a promo campaign: it has
\* started one draw after the position the regeneration had left, on a cycle
\* of two different variates, so its jitter differs from that of the first.
C29_Witness ==
    /\ result.op = "get_forecast"
    /\ Len(applied_changes) = 1
    /\ applied_changes[1].type = "promo_campaign"
    /\ result.start = (AfterRegeneration(config) + 7) % StreamPeriod
    /\ result.start # AfterRegeneration(config)
    /\ rng = (result.start + 7) % StreamPeriod
    /\ stream[1] # stream[2]

====
